---- MODULE Spec2Model ----
(***************************************************************************)
(* A model of src/main.c: a continuously zooming Mandelbrot renderer.      *)
(*                                                                         *)
(* Numbers.  The program computes in IEEE binary64 doubles, and so does    *)
(* the model: a double is its sign, its 53-bit significand and its         *)
(* exponent, and every arithmetic operation computes the exact result and  *)
(* rounds it to the nearest double, ties to even, with gradual underflow,  *)
(* overflow to an infinity, NaN for Inf - Inf and Inf * 0, and every       *)
(* comparison with NaN false.                                              *)
(***************************************************************************)
EXTENDS Integers, Sequences, FiniteSets, TLC

\* ------------------------------------------------------------------------
\* Doubles
\* ------------------------------------------------------------------------

\* A double is a record [s, e, hi, lo]: sign s (0 or 1), and for a finite
\* value the 53-bit significand hi * 2^28 + lo and the exponent e of its
\* lowest bit, so that the value is (-1)^s * (hi * 2^28 + lo) * 2^e.  A
\* normal double has 2^52 <= significand < 2^53 and EMin <= e <= EMax; a
\* subnormal one has a smaller significand and e = EMin; zero has
\* significand 0 and e = EMin.  Infinity and NaN have their own exponents.
EMin == -1074
EMax == 971
EInf == 972
ENaN == 973

\* Significands are held in digits of 28 bits, multiplied in half digits.
D28 == 268435456
D14 == 16384

NaN == [s |-> 0, e |-> ENaN, hi |-> 0, lo |-> 0]

Inf(s) == [s |-> s, e |-> EInf, hi |-> 0, lo |-> 0]

Zero(s) == [s |-> s, e |-> EMin, hi |-> 0, lo |-> 0]

IsNaN(a) == a.e = ENaN

IsInf(a) == a.e = EInf

IsZero(a) == a.e <= EMax /\ a.hi = 0 /\ a.lo = 0

MaxI(a, b) == IF a >= b THEN a ELSE b

MinI(a, b) == IF a <= b THEN a ELSE b

\* The number of bits of x, 0 <= x < 2^31: found by halving, the bits
\* counted so far being n.
BitLen(x) ==
  LET B1(y, n) == IF y >= 1 THEN n + 1 ELSE n
      B2(y, n) == IF y >= 2 THEN B1(y \div 2, n + 1) ELSE B1(y, n)
      B4(y, n) == B2(IF y >= 4 THEN y \div 4 ELSE y,
                     IF y >= 4 THEN n + 2 ELSE n)
      B8(y, n) == B4(IF y >= 16 THEN y \div 16 ELSE y,
                     IF y >= 16 THEN n + 4 ELSE n)
      B16(y, n) == B8(IF y >= 256 THEN y \div 256 ELSE y,
                      IF y >= 256 THEN n + 8 ELSE n)
  IN  B16(IF x >= 65536 THEN x \div 65536 ELSE x,
          IF x >= 65536 THEN 16 ELSE 0)

\* An exact natural number of up to 112 bits: four digits, lowest first.
Dig(P, i) == IF i >= 1 /\ i <= 4 THEN P[i] ELSE 0

BigZero == <<0, 0, 0, 0>>

BigBitLen(P) ==
  LET Top(i) == 28 * (i - 1) + BitLen(P[i])
  IN  Top(IF P[4] > 0 THEN 4
          ELSE IF P[3] > 0 THEN 3
          ELSE IF P[2] > 0 THEN 2
          ELSE 1)

\* P \div 2^k
BigShr(P, k) ==
  LET q == k \div 28
      r == k % 28
      D(i) == (Dig(P, i + q) \div 2^r) + (Dig(P, i + q + 1) % 2^r) * 2^(28 - r)
  IN  <<D(1), D(2), D(3), D(4)>>

\* P * 2^k, for a product below 2^112
BigShl(P, k) ==
  LET q == k \div 28
      r == k % 28
      D(i) == (Dig(P, i - q) % 2^(28 - r)) * 2^r
                + (Dig(P, i - q - 1) \div 2^(28 - r))
  IN  <<D(1), D(2), D(3), D(4)>>

\* Bit k of P (bit 0 is the lowest).
BigBit(P, k) == (Dig(P, (k \div 28) + 1) \div 2^(k % 28)) % 2

\* P % 2^k = 0
BigLowZero(P, k) ==
  \A i \in 1 .. 4 :
    IF 28 * i <= k THEN P[i] = 0
    ELSE IF 28 * (i - 1) < k THEN P[i] % 2^(k - 28 * (i - 1)) = 0
    ELSE TRUE

\* P + Q, for a sum below 2^112
BigAdd(P, Q) ==
  LET t1 == P[1] + Q[1]
      t2 == P[2] + Q[2] + (t1 \div D28)
      t3 == P[3] + Q[3] + (t2 \div D28)
      t4 == P[4] + Q[4] + (t3 \div D28)
  IN  <<t1 % D28, t2 % D28, t3 % D28, t4>>

\* P - Q, for P >= Q
BigSub(P, Q) ==
  LET t1 == D28 + P[1] - Q[1]
      t2 == D28 + P[2] - Q[2] - (1 - (t1 \div D28))
      t3 == D28 + P[3] - Q[3] - (1 - (t2 \div D28))
      t4 == P[4] - Q[4] - (1 - (t3 \div D28))
  IN  <<t1 % D28, t2 % D28, t3 % D28, t4>>

\* P < Q
BigLess(P, Q) ==
  IF P[4] # Q[4] THEN P[4] < Q[4]
  ELSE IF P[3] # Q[3] THEN P[3] < Q[3]
  ELSE IF P[2] # Q[2] THEN P[2] < Q[2]
  ELSE P[1] < Q[1]

\* The finite double of sign s with significand hi * 2^28 + lo at
\* exponent e, or the infinity beyond the largest finite double.
Pack(s, e, hi, lo) ==
  IF e > EMax THEN Inf(s) ELSE [s |-> s, e |-> e, hi |-> hi, lo |-> lo]

\* The double nearest to (-1)^s * P * 2^E, ties to the even significand:
\* the rounding every arithmetic operation ends with.
Round(s, E, P) ==
  LET \* the significand, to which the rounding may have carried
      Carried(e, hi, lo) ==
        IF hi + (lo \div D28) = 2^25 THEN Pack(s, e + 1, 2^24, 0)
        ELSE Pack(s, e, hi + (lo \div D28), lo % D28)
      \* the low drop bits go: Q is what stays
      Dropped(drop, Q) ==
        Carried(E + drop, Q[2],
                Q[1] + (IF /\ BigBit(P, drop - 1) = 1
                           /\ \/ ~BigLowZero(P, drop - 1)
                              \/ Q[1] % 2 = 1
                        THEN 1 ELSE 0))
      \* nothing goes: the significand moves sh bits to the left
      Kept(sh, Q) == Pack(s, E - sh, Q[2], Q[1])
      Shifted(sh) == Kept(sh, BigShl(P, sh))
      At(L, drop) ==
        IF drop <= 0 THEN Shifted(MinI(53 - L, E - EMin))
        ELSE Dropped(drop, BigShr(P, drop))
      Long(L) == At(L, MaxI(L - 53, EMin - E))
  IN  IF P = BigZero THEN Zero(s) ELSE Long(BigBitLen(P))

\* (double)n for an int n.
IntToD(n) ==
  LET a == IF n < 0 THEN -n ELSE n
  IN  Round(IF n < 0 THEN 1 ELSE 0, 0, <<a % D28, a \div D28, 0, 0>>)

\* -a
NegD(a) == IF IsNaN(a) THEN NaN ELSE [a EXCEPT !.s = 1 - a.s]

\* The exact product of two significands.
BigMul(a, b) ==
  LET a0 == a.lo % D14
      a1 == a.lo \div D14
      a2 == a.hi % D14
      a3 == a.hi \div D14
      b0 == b.lo % D14
      b1 == b.lo \div D14
      b2 == b.hi % D14
      b3 == b.hi \div D14
      t0 == a0 * b0
      t1 == a0 * b1 + a1 * b0 + (t0 \div D14)
      t2 == a0 * b2 + a1 * b1 + a2 * b0 + (t1 \div D14)
      t3 == a0 * b3 + a1 * b2 + a2 * b1 + a3 * b0 + (t2 \div D14)
      t4 == a1 * b3 + a2 * b2 + a3 * b1 + (t3 \div D14)
      t5 == a2 * b3 + a3 * b2 + (t4 \div D14)
      t6 == a3 * b3 + (t5 \div D14)
  IN  <<(t0 % D14) + (t1 % D14) * D14,
        (t2 % D14) + (t3 % D14) * D14,
        (t4 % D14) + (t5 % D14) * D14,
        t6>>

\* Round(s, E, P) for the product P of two normal significands, which has
\* 105 or 106 bits, when the result is a normal double: the low 52 or 53
\* bits are dropped.
RoundProduct(s, E, P) ==
  LET Carried(e, hi1, lo1) ==
        IF hi1 + (lo1 \div D28) = 2^25
          THEN [s |-> s, e |-> e + 1, hi |-> 2^24, lo |-> 0]
          ELSE [s |-> s, e |-> e, hi |-> hi1 + (lo1 \div D28),
                lo |-> lo1 % D28]
      Dropped(r, lo0) ==
        Carried(E + r + 28, (P[3] \div 2^r) + P[4] * 2^(28 - r),
                lo0 + (IF /\ (P[2] \div 2^(r - 1)) % 2 = 1
                          /\ \/ P[2] % 2^(r - 1) # 0
                             \/ P[1] # 0
                             \/ lo0 % 2 = 1
                       THEN 1 ELSE 0))
      At(r) == Dropped(r, (P[2] \div 2^r) + (P[3] % 2^r) * 2^(28 - r))
  IN  At(IF P[4] >= 2^21 THEN 25 ELSE 24)

\* a * b.  A product by a power of two is exact: only the exponent moves.
MulD(a, b) ==
  LET Product(s, E, P) ==
        IF a.hi >= 2^24 /\ b.hi >= 2^24 /\ E >= EMin - 52 /\ E <= EMax - 54
          THEN RoundProduct(s, E, P)
          ELSE Round(s, E, P)
      Finite(s, E) ==
        IF IsZero(a) \/ IsZero(b) THEN Zero(s)
        ELSE IF a.hi = 2^24 /\ a.lo = 0 /\ b.hi >= 2^24 /\ E >= EMin - 52
          THEN Pack(s, E + 52, b.hi, b.lo)
        ELSE IF b.hi = 2^24 /\ b.lo = 0 /\ a.hi >= 2^24 /\ E >= EMin - 52
          THEN Pack(s, E + 52, a.hi, a.lo)
        ELSE Product(s, E, BigMul(a, b))
      Signed(s) ==
        IF a.e > EMax \/ b.e > EMax
          THEN (IF IsNaN(a) \/ IsNaN(b) \/ IsZero(a) \/ IsZero(b) THEN NaN
                ELSE Inf(s))
          ELSE Finite(s, a.e + b.e)
  IN  Signed((a.s + b.s) % 2)

\* |a| < |b| for doubles that are not NaN
MagLess(a, b) ==
  IF a.e # b.e THEN a.e < b.e
  ELSE IF a.hi # b.hi THEN a.hi < b.hi
  ELSE a.lo < b.lo

\* Round(s, E, <<lo, hi, 0, 0>>) for a number of 54 to 57 bits when the
\* result is a normal double: the low 1 to 4 bits are dropped.
RoundSum(s, E, hi, lo) ==
  LET Carried(e, hi1, lo1) ==
        IF hi1 + (lo1 \div D28) = 2^25
          THEN [s |-> s, e |-> e + 1, hi |-> 2^24, lo |-> 0]
          ELSE [s |-> s, e |-> e, hi |-> hi1 + (lo1 \div D28),
                lo |-> lo1 % D28]
      Dropped(r, lo0) ==
        Carried(E + r, hi \div 2^r,
                lo0 + (IF /\ (lo \div 2^(r - 1)) % 2 = 1
                          /\ \/ lo % 2^(r - 1) # 0
                             \/ lo0 % 2 = 1
                       THEN 1 ELSE 0))
      At(r) == Dropped(r, (lo \div 2^r) + (hi % 2^r) * 2^(28 - r))
  IN  At(BitLen(hi) - 25)

\* The double nearest to (-1)^s * (hi * 2^28 + lo) * 2^E, for a number
\* below 2^58.
Round2(s, E, hi, lo) ==
  IF hi >= 2^25 /\ E >= EMin - 1 /\ E <= EMax - 5
    THEN RoundSum(s, E, hi, lo)
    ELSE Round(s, E, <<lo, hi, 0, 0>>)

\* a + b for finite nonzero a and b with a.e >= b.e.  The sum is formed
\* three bits below b's lowest bit when the exponents differ by at most
\* one digit less those bits, and otherwise three bits below a's lowest
\* bit, with the bits of b below that gathered in the lowest bit; b then
\* is so small beside a that the gathered bit is below the rounding bit.
AddFinite(a, b) ==
  LET Rounded(t) == Round2(t[1], t[2], t[3], t[4])
      \* the significands differ, at the same exponent: x is the larger
      Less(x, y, lo) ==
        <<x.s, x.e, x.hi - y.hi - 1 + (lo \div D28), lo % D28>>
      Same(lo) == <<a.s, a.e, a.hi + b.hi + (lo \div D28), lo % D28>>
      \* a's significand three bits to the left is xhi * 2^28 + xlo; b's,
      \* three bits to the left and d to the right, is yhi * 2^28 + ylo
      Plus(xhi, yhi, lo) ==
        <<a.s, a.e - 3, xhi + yhi + (lo \div D28), lo % D28>>
      Minus(xhi, yhi, lo, lost) ==
        <<a.s, a.e - 3, xhi - yhi - 1 + (lo \div D28),
          (lo % D28) + (IF lost /\ lo % 2 = 0 THEN 1 ELSE 0)>>
      Apart(xhi, xlo, yhi, ylo, lost) ==
        IF a.s = b.s
          THEN Plus(xhi, yhi,
                    xlo + ylo + (IF lost /\ ylo % 2 = 0 THEN 1 ELSE 0))
          ELSE Minus(xhi, yhi,
                     D28 + xlo - ylo - (IF lost THEN 1 ELSE 0), lost)
      By(k) ==
        Apart(a.hi * 8 + (a.lo \div 2^25), (a.lo % 2^25) * 8,
              IF k <= 0 THEN b.hi * 2^(-k) + (b.lo \div 2^(28 + k))
              ELSE IF k < 28 THEN b.hi \div 2^k
              ELSE 0,
              IF k <= 0 THEN (b.lo % 2^(28 + k)) * 2^(-k)
              ELSE IF k < 28
                THEN (b.lo \div 2^k) + (b.hi % 2^k) * 2^(28 - k)
              ELSE b.hi \div 2^(k - 28),
              IF k <= 0 THEN FALSE
              ELSE IF k < 28 THEN b.lo % 2^k # 0
              ELSE b.lo # 0 \/ b.hi % 2^(k - 28) # 0)
      Exact(d) ==
        IF d > 0 THEN By(d - 3)
        ELSE IF a.s = b.s THEN Same(a.lo + b.lo)
        ELSE IF MagLess(b, a) THEN Less(a, b, D28 + a.lo - b.lo)
        ELSE Less(b, a, D28 + b.lo - a.lo)
  IN  IF a.e - b.e > 55 THEN a
      ELSE IF a.e = b.e /\ a.s # b.s /\ a.hi = b.hi /\ a.lo = b.lo
        THEN Zero(0)
      ELSE Rounded(Exact(a.e - b.e))

\* a + b
AddD(a, b) ==
  IF IsNaN(a) \/ IsNaN(b) THEN NaN
  ELSE IF IsInf(a) /\ IsInf(b) THEN (IF a.s = b.s THEN a ELSE NaN)
  ELSE IF IsInf(a) THEN a
  ELSE IF IsInf(b) THEN b
  ELSE IF IsZero(a) /\ IsZero(b) THEN Zero(IF a.s = 1 /\ b.s = 1 THEN 1 ELSE 0)
  ELSE IF IsZero(a) THEN b
  ELSE IF IsZero(b) THEN a
  ELSE AddFinite(IF a.e >= b.e THEN a ELSE b, IF a.e >= b.e THEN b ELSE a)

\* a - b
SubD(a, b) == AddD(a, NegD(b))

\* The quotient and the remainder of a.significand * 2^56 by n, 0 < n < 2^16.
BigDivInt(a, n) ==
  LET c7 == a.hi \div D14
      c6 == (c7 % n) * D14 + (a.hi % D14)
      c5 == (c6 % n) * D14 + (a.lo \div D14)
      c4 == (c5 % n) * D14 + (a.lo % D14)
      c3 == (c4 % n) * D14
      c2 == (c3 % n) * D14
      c1 == (c2 % n) * D14
      c0 == (c1 % n) * D14
  IN  [q |-> <<(c0 \div n) + (c1 \div n) * D14,
               (c2 \div n) + (c3 \div n) * D14,
               (c4 \div n) + (c5 \div n) * D14,
               (c6 \div n) + (c7 \div n) * D14>>,
       r |-> c0 % n]

\* a / n for a double a and a positive int n converted to double.  The
\* quotient is held to 56 further bits, with one more bit that records a
\* remainder, before it is rounded.
DivByInt(a, n) ==
  LET Rounded(Q, r) ==
        Round(a.s, a.e - 57,
              <<Q[1] + (IF r # 0 THEN 1 ELSE 0), Q[2], Q[3], Q[4]>>)
      Divided(d) == Rounded(BigShl(d.q, 1), d.r)
  IN  IF IsNaN(a) \/ IsInf(a) \/ IsZero(a) THEN a
      ELSE Divided(BigDivInt(a, n))

\* a < b
LtD(a, b) ==
  /\ ~IsNaN(a)
  /\ ~IsNaN(b)
  /\ IF IsZero(a) /\ IsZero(b) THEN FALSE
     ELSE IF a.s # b.s THEN a.s = 1
     ELSE MagLess(IF a.s = 0 THEN a ELSE b, IF a.s = 0 THEN b ELSE a)

\* a >= b
GeD(a, b) == ~IsNaN(a) /\ ~IsNaN(b) /\ ~LtD(a, b)

\* The literals of the program, each the double nearest to its decimal.
D_4_0 == [s |-> 0, e |-> -50, hi |-> 16777216, lo |-> 0]
D_2_0 == [s |-> 0, e |-> -51, hi |-> 16777216, lo |-> 0]
D_1_0 == [s |-> 0, e |-> -52, hi |-> 16777216, lo |-> 0]
D_0_25 == [s |-> 0, e |-> -54, hi |-> 16777216, lo |-> 0]
D_0_0625 == [s |-> 0, e |-> -56, hi |-> 16777216, lo |-> 0]
\* 0.985
D_0_985 == [s |-> 0, e |-> -53, hi |-> 33051115, lo |-> 139586437]
\* -0.743643887037151
D_CENTER_R == [s |-> 1, e |-> -53, hi |-> 24952548, lo |-> 64371833]
\* 0.131825904205330
D_CENTER_I == [s |-> 0, e |-> -55, hi |-> 17693373, lo |-> 95022135]

\* ------------------------------------------------------------------------
\* Constants of the program
\* ------------------------------------------------------------------------

MAX_ITERATIONS == 255

\* The screen size when the display mode is not available.
SCREEN_WIDTH == 800
SCREEN_HEIGHT == 600

\* ------------------------------------------------------------------------
\* get_color
\* ------------------------------------------------------------------------

\* The colour of an iteration count.  Black is 0; the sinusoid triple of a
\* count n < MAX_ITERATIONS (whose channels all lie in 1..255, so it is never
\* black) is named by n + 1.
get_color(n) == IF n >= MAX_ITERATIONS THEN 0 ELSE n + 1

\* The word row[x] = 0xFF000000 stores.
BLACK == 0

\* ------------------------------------------------------------------------
\* Pixel to complex plane
\* ------------------------------------------------------------------------

\* (double)SCREEN_WIDTH / (double)SCREEN_HEIGHT
AspectRatio(w, h) == DivByInt(IntToD(w), h)

\* n / 2.0
HalfD(n) == DivByInt(IntToD(n), 2)

\* x_scale = (4.0 * aspect_ratio * zoom) / SCREEN_WIDTH
XScale(z, w, h) == DivByInt(MulD(MulD(D_4_0, AspectRatio(w, h)), z), w)

\* y_scale = (4.0 * zoom) / SCREEN_WIDTH
YScale(z, w) == DivByInt(MulD(D_4_0, z), w)

\* center_r + (x - SCREEN_WIDTH / 2.0) * x_scale
PixelCr(x, c_r, x_scale, w) ==
  AddD(c_r, MulD(SubD(IntToD(x), HalfD(w)), x_scale))

\* center_i + (y - SCREEN_HEIGHT / 2.0) * y_scale
PixelCi(y, c_i, y_scale, h) ==
  AddD(c_i, MulD(SubD(IntToD(y), HalfD(h)), y_scale))

\* A mapping of the clicked pixel's middle, x + 0.5, instead of its corner.
MouseR_PixelMiddle(x, c_r, z, w, h) ==
  AddD(c_r, DivByInt(MulD(SubD(DivByInt(IntToD(2 * x + 1), 2), HalfD(w)),
                          MulD(MulD(D_4_0, AspectRatio(w, h)), z)), w))

\* mouse_r = center_r + (e.button.x - SCREEN_WIDTH / 2.0)
\*                       * (4.0 * aspect_ratio * zoom) / SCREEN_WIDTH
MouseR(x, c_r, z, w, h) ==
  AddD(c_r, DivByInt(MulD(SubD(IntToD(x), HalfD(w)),
                          MulD(MulD(D_4_0, AspectRatio(w, h)), z)), w))

\* mouse_i = center_i + (e.button.y - SCREEN_HEIGHT / 2.0)
\*                       * (4.0 * zoom) / SCREEN_WIDTH
MouseI(y, c_i, z, w, h) ==
  AddD(c_i, DivByInt(MulD(SubD(IntToD(y), HalfD(h)), MulD(D_4_0, z)), w))

\* zoom *= zoom_speed
AdvanceZoom(z) == MulD(z, D_0_985)

\* ------------------------------------------------------------------------
\* Row ranges
\* ------------------------------------------------------------------------

\* start_y = (SCREEN_HEIGHT / num_threads) * thread_id
StartY(h, n, id) == (h \div n) * id

\* An end row one past the next worker's first row.
EndY_OnePast(h, n, id) == (h \div n) * (id + 1) + 1

\* end_y = (SCREEN_HEIGHT / num_threads) * (thread_id + 1)
EndY(h, n, id) == (h \div n) * (id + 1)

\* ------------------------------------------------------------------------
\* periodicity_check
\* ------------------------------------------------------------------------

\* (cr + 1.0) * (cr + 1.0) + ci * ci < 0.0625
Bulb2(cr, ci) ==
  LET Circle(c1) == LtD(AddD(MulD(c1, c1), MulD(ci, ci)), D_0_0625)
  IN  Circle(AddD(cr, D_1_0))

\* q = (cr - 0.25) * (cr - 0.25) + ci * ci;
\* q * (q + (cr - 0.25)) < 0.25 * ci * ci
Cardioid(cr, ci) ==
  LET Test(q, d) == LtD(MulD(q, AddD(q, d)), MulD(MulD(D_0_25, ci), ci))
      Q(d) == Test(AddD(MulD(d, d), MulD(ci, ci)), d)
  IN  Q(SubD(cr, D_0_25))

periodicity_check(cr, ci) == Bulb2(cr, ci) \/ Cardioid(cr, ci)

\* ------------------------------------------------------------------------
\* The scalar escape-time loop (the portable path)
\* ------------------------------------------------------------------------

\* The loop test of the scalar kernel: zr2 + zi2 >= 4.0
ScalarEscaped(zr2, zi2) == GeD(AddD(zr2, zi2), D_4_0)

\* zi = 2.0 * zr * zi + ci
ScalarNextZi(zr, zi, ci) == AddD(MulD(MulD(D_2_0, zr), zi), ci)

\* An update of zr that leaves out the point: zr = zr2 - zi2
ScalarNextZr_NoPoint(zr2, zi2, cr) == SubD(zr2, zi2)

\* zr = zr2 - zi2 + cr
ScalarNextZr(zr2, zi2, cr) == AddD(SubD(zr2, zi2), cr)

\* The locals before the first pass: zr = zi = 0.0, n = 0.
ScalarInit == [n |-> 0, zr |-> Zero(0), zi |-> Zero(0), done |-> FALSE]

\* One pass of the for loop over n, including its test n < MAX_ITERATIONS.
ScalarStep(s, cr, ci) ==
  LET Body(zr2, zi2) ==
        IF ScalarEscaped(zr2, zi2) THEN [s EXCEPT !.done = TRUE]
        ELSE [n |-> s.n + 1,
              zr |-> ScalarNextZr(zr2, zi2, cr),
              zi |-> ScalarNextZi(s.zr, s.zi, ci),
              done |-> FALSE]
  IN  IF s.n >= MAX_ITERATIONS THEN [s EXCEPT !.done = TRUE]
      ELSE Body(MulD(s.zr, s.zr), MulD(s.zi, s.zi))

\* Up to k passes in sequence, stopping at the loop's exit.  (The passes are
\* grouped in halves only to keep the evaluation shallow.)
RECURSIVE ScalarPasses(_, _, _, _)
ScalarPasses(s, k, cr, ci) ==
  IF s.done THEN s
  ELSE IF k = 1 THEN ScalarStep(s, cr, ci)
  ELSE ScalarPasses(ScalarPasses(s, k \div 2, cr, ci), k - (k \div 2), cr, ci)

\* n after the loop, for the point (cr, ci)
ScalarKernel(cr, ci) ==
  ScalarPasses(ScalarInit, MAX_ITERATIONS + 1, cr, ci).n

\* ------------------------------------------------------------------------
\* The two-lane SSE2 loop
\* ------------------------------------------------------------------------

\* One lane of _mm_cmplt_pd(_mag2, _fours)
LaneMask(zr2, zi2) == LtD(AddD(zr2, zi2), D_4_0)

\* A counter that is not masked: _mm_add_pd(_iterations, _ones)
LaneCount_Unmasked(it, mask) == it + 1

\* One lane of _mm_add_pd(_iterations, _mm_and_pd(_escape_mask, _ones));
\* the counter is a double holding a small integer.
LaneCount(it, mask) == IF mask THEN it + 1 ELSE it

\* One lane of _zi = _zri * _two + _ci
VecNextZi(zr, zi, ci) == AddD(MulD(MulD(zr, zi), D_2_0), ci)

\* One lane of _zr = (_zr2 - _zi2) + _cr
VecNextZr(zr2, zi2, cr) == AddD(SubD(zr2, zi2), cr)

\* The registers before the first iteration.
VecInit ==
  [i |-> 0, zr0 |-> Zero(0), zi0 |-> Zero(0), zr1 |-> Zero(0),
   zi1 |-> Zero(0),
   it0 |-> 0, it1 |-> 0, done |-> FALSE]

\* One pass of the for loop over i, including its test i < MAX_ITERATIONS.
VecStep(s, cr0, cr1, ci) ==
  LET \* zr2 and zi2 hold _zr2 and _zi2, m holds _escape_mask, by lane
      Masked(zr2, zi2, m) ==
        IF ~m[1] /\ ~m[2] THEN [s EXCEPT !.done = TRUE]
        ELSE [i |-> s.i + 1,
              zr0 |-> VecNextZr(zr2[1], zi2[1], cr0),
              zi0 |-> VecNextZi(s.zr0, s.zi0, ci),
              zr1 |-> VecNextZr(zr2[2], zi2[2], cr1),
              zi1 |-> VecNextZi(s.zr1, s.zi1, ci),
              it0 |-> LaneCount(s.it0, m[1]),
              it1 |-> LaneCount(s.it1, m[2]),
              done |-> FALSE]
      Squared(zr2, zi2) ==
        Masked(zr2, zi2,
               <<LaneMask(zr2[1], zi2[1]), LaneMask(zr2[2], zi2[2])>>)
  IN  IF s.i >= MAX_ITERATIONS THEN [s EXCEPT !.done = TRUE]
      ELSE Squared(<<MulD(s.zr0, s.zr0), MulD(s.zr1, s.zr1)>>,
                   <<MulD(s.zi0, s.zi0), MulD(s.zi1, s.zi1)>>)

\* Up to k passes in sequence, stopping at the loop's exit.
RECURSIVE VecPasses(_, _, _, _, _)
VecPasses(s, k, cr0, cr1, ci) ==
  IF s.done THEN s
  ELSE IF k = 1 THEN VecStep(s, cr0, cr1, ci)
  ELSE VecPasses(VecPasses(s, k \div 2, cr0, cr1, ci), k - (k \div 2),
                 cr0, cr1, ci)

\* (int)n_values[0], (int)n_values[1] for the batch (cr0, ci), (cr1, ci)
VectorKernel(cr0, cr1, ci) ==
  LET Counts(s) == <<s.it0, s.it1>>
  IN  Counts(VecPasses(VecInit, MAX_ITERATIONS + 1, cr0, cr1, ci))

\* ------------------------------------------------------------------------
\* State
\* ------------------------------------------------------------------------

VARIABLES
  W,            \* SCREEN_WIDTH, set once at startup from the display mode
  H,            \* SCREEN_HEIGHT
  num_threads,  \* SDL_GetCPUCount(), at least 1
  simd,         \* the build: TRUE for the SSE2 path, FALSE for the C path
  pc,           \* main(): "start", "loop", "poll", "advance", "lock",
                \* "create", "join", "unlock", "exit" (returned 0),
                \* "failed" (returned 1), or "crashed"
  allocated,    \* whether threads and thread_args point at memory: FALSE
                \* before the calls of malloc and when malloc returned NULL
  is_running,
  zoom, center_r, center_i,
  idx,          \* the i of the create loop and of the join loop
  events,       \* SDL's event queue
  lockOK,       \* whether the texture is locked: from a successful
                \* SDL_LockTexture until SDL_UnlockTexture
  ptr,          \* what main's pixels and pitch hold: "unset" until the
                \* first successful SDL_LockTexture, "buffer" (the address
                \* and the row length of the texture's buffer) from then on
  thread_args,  \* thread_args[i], the argument block of worker i
  th,           \* per worker, the thread behind threads[i]: "ready"
                \* (created, not yet running), "run", "exited" (returned,
                \* not yet joined), or "dead" (the handle names no thread
                \* that can be joined: it was never set, or its thread was
                \* joined already)
  created,      \* history: the workers pthread_create started in this pass
  joined,       \* history: the workers pthread_join waited for in this pass
  wl,           \* per worker, its locals: the row y, the column x, where
                \* it stands in the loop body ("check" or "kernel"),
                \* x_scale and y_scale, and the points of the batch at
                \* hand: ci (ci_base), cr0 and cr1 (cr_base0 and cr_base1;
                \* cr0 is the C path's cr)
  pixels,       \* the words of the texture's buffer, by <<y, x>>; Stale:
                \* not written since the texture was last locked or unlocked
  writes,       \* history: per <<y, x>> stored to in this frame, how many
                \* stores (n) and by which workers (by)
  checked,      \* history: per <<y, x>>, the result of periodicity_check on
                \* that pixel's point in this frame, where it was evaluated
  iterated,     \* history: the <<y, x>> a kernel iterated in this frame
  frame,        \* passes of the main loop entered
  nadv,         \* history: how many times zoom was advanced
  shown,        \* history: whether this pass of the loop presented its
                \* frame, and what was true as it did
  nposted,      \* events posted so far
  kpc,      \* kernel harness: "idle", "scalar0", "scalar1", "vector", "done"
  kin,      \* kernel harness: the batch <<cr0, cr1, ci>>
  kscal,    \* kernel harness: the scalar kernel's counts for the two points
  kvec,     \* kernel harness: the registers of the two-lane loop
  kfrozen   \* kernel harness: per lane, the count when its mask first went
            \* false (-1 before)

cfgvars == <<W, H, num_threads, simd>>

viewvars == <<zoom, center_r, center_i>>

histvars == <<writes, checked, iterated, created, joined>>

mainvars ==
  <<pc, allocated, is_running, idx, events, lockOK, ptr, thread_args, th, wl,
    pixels, frame, nadv, shown, nposted>>

kvars == <<kpc, kin, kscal, kvec, kfrozen>>

vars == <<cfgvars, viewvars, histvars, mainvars, kvars>>

\* ------------------------------------------------------------------------
\* Bounds of the model
\* ------------------------------------------------------------------------

\* The display modes of the model: every width and height whose product is
\* at most MaxPixels.
MaxPixels == 4
MaxThreads == 2
MaxFrames == 2
MaxEvents == 2

DisplayModes ==
  {m \in (1 .. MaxPixels) \X (1 .. MaxPixels) : m[1] * m[2] <= MaxPixels}

Stale == -1

NoImage == [c \in {} |-> Stale]

NoFrame ==
  [frame |-> 0, locked |-> FALSE, busy |-> {}, created |-> {}, joined |-> {},
   image |-> NoImage]

Workers == 0 .. num_threads - 1

NoArgs ==
  [thread_id |-> -1, num_threads |-> 0, pixels |-> "unset", pitch |-> "unset",
   center_r |-> Zero(0), center_i |-> Zero(0), zoom |-> Zero(0)]

IdleLocals ==
  [y |-> 0, x |-> 0, at |-> "check", x_scale |-> Zero(0), y_scale |-> Zero(0),
   ci |-> Zero(0), cr0 |-> Zero(0), cr1 |-> Zero(0)]

NoWrites == [c \in {} |-> [n |-> 0, by |-> {}]]

NoChecks == [c \in {} |-> FALSE]

Init ==
  /\ \E m \in DisplayModes : W = m[1] /\ H = m[2]
  /\ num_threads \in 1 .. MaxThreads
  /\ simd \in BOOLEAN
  /\ pc = "start"
  /\ allocated = FALSE
  /\ is_running = TRUE
  /\ zoom = D_1_0
  /\ center_r = D_CENTER_R
  /\ center_i = D_CENTER_I
  /\ idx = 0
  /\ events = <<>>
  /\ lockOK = FALSE
  /\ ptr = "unset"
  /\ thread_args = [t \in Workers |-> NoArgs]
  /\ th = [t \in Workers |-> "dead"]
  /\ created = {}
  /\ joined = {}
  /\ wl = [t \in Workers |-> IdleLocals]
  /\ pixels = [c \in (0 .. H - 1) \X (0 .. W - 1) |-> Stale]
  /\ writes = NoWrites
  /\ checked = NoChecks
  /\ iterated = {}
  /\ frame = 0
  /\ nadv = 0
  /\ shown = NoFrame
  /\ nposted = 0
  /\ kpc = "idle"
  /\ kin = <<Zero(0), Zero(0), Zero(0)>>
  /\ kscal = <<-1, -1>>
  /\ kvec = VecInit
  /\ kfrozen = <<-1, -1>>

\* The process is killed (a fault on an invalid pointer or thread handle):
\* its threads and its memory are gone, and only the display mode and the
\* build remain to tell the runs apart.
Crash ==
  /\ pc' = "crashed"
  /\ allocated' = FALSE
  /\ ptr' = "unset"
  /\ is_running' = FALSE
  /\ zoom' = Zero(0) /\ center_r' = Zero(0) /\ center_i' = Zero(0)
  /\ idx' = 0
  /\ events' = <<>>
  /\ lockOK' = FALSE
  /\ thread_args' = [t \in Workers |-> NoArgs]
  /\ th' = [t \in Workers |-> "dead"]
  /\ wl' = [t \in Workers |-> IdleLocals]
  /\ pixels' = [c \in DOMAIN pixels |-> Stale]
  /\ writes' = NoWrites /\ checked' = NoChecks /\ iterated' = {}
  /\ created' = {} /\ joined' = {}
  /\ frame' = 0 /\ nadv' = 0 /\ shown' = NoFrame /\ nposted' = 0
  /\ UNCHANGED <<cfgvars, kvars>>

\* ------------------------------------------------------------------------
\* main(): startup
\* ------------------------------------------------------------------------

\* SDL_Init, SDL_CreateWindow, SDL_CreateRenderer or SDL_CreateTexture
\* fails: main prints a message and returns 1.  The loop is never entered.
StartupFails ==
  /\ pc = "start"
  /\ pc' = "failed"
  /\ UNCHANGED <<cfgvars, viewvars, histvars, allocated, is_running, idx,
                 events, lockOK, ptr, thread_args, th, wl, pixels, frame,
                 nadv, shown, nposted, kvars>>

\* SDL, the window, the renderer and the texture are set up, and threads
\* and thread_args are taken from malloc, whose results are not looked at:
\* they may be NULL.
StartupDone ==
  /\ pc = "start"
  /\ pc' = "loop"
  /\ allocated' \in BOOLEAN
  /\ UNCHANGED <<cfgvars, viewvars, histvars, is_running, idx, events,
                 lockOK, ptr, thread_args, th, wl, pixels, frame, nadv,
                 shown, nposted, kvars>>

\* ------------------------------------------------------------------------
\* main(): the event loop
\* ------------------------------------------------------------------------

QuitEvent == [type |-> "quit", button |-> "none", x |-> 0, y |-> 0]

ButtonDown(b, x, y) == [type |-> "down", button |-> b, x |-> x, y |-> y]

\* The events the window system delivers: a quit request, a left click on
\* the top-left pixel, a right click.
PostableEvents ==
  {QuitEvent, ButtonDown("left", 0, 0), ButtonDown("right", 0, 0)}

\* SDL_PollEvent pumps the window system before it looks at the queue: what
\* the user did since the last call, during the drawing of a frame included,
\* enters the queue in the poll phase.
PostEvent ==
  /\ pc = "poll"
  /\ nposted < MaxEvents
  /\ \E e \in PostableEvents : events' = Append(events, e)
  /\ nposted' = nposted + 1
  /\ UNCHANGED <<cfgvars, viewvars, histvars, pc, is_running, idx, lockOK,
                 thread_args, th, wl, pixels, frame, nadv, shown, allocated,
                 ptr, kvars>>

\* while (is_running): the body is entered.
LoopEnter ==
  /\ pc = "loop"
  /\ is_running
  /\ frame < MaxFrames
  /\ frame' = frame + 1
  /\ pc' = "poll"
  /\ writes' = NoWrites
  /\ checked' = NoChecks
  /\ iterated' = {}
  /\ created' = {}
  /\ joined' = {}
  /\ shown' = NoFrame
  /\ UNCHANGED <<cfgvars, viewvars, is_running, idx, events, lockOK,
                 thread_args, th, wl, pixels, nadv, nposted, allocated, ptr,
                 kvars>>

\* while (is_running): the loop ends and main() cleans up and returns.
LoopExit ==
  /\ pc = "loop"
  /\ ~is_running
  /\ pc' = "exit"
  /\ UNCHANGED <<cfgvars, viewvars, histvars, is_running, idx, events, lockOK,
                 thread_args, th, wl, pixels, frame, nadv, shown, nposted,
                 allocated, ptr, kvars>>

\* SDL_PollEvent returned an SDL_QUIT.
PollQuit ==
  /\ pc = "poll"
  /\ events # <<>>
  /\ Head(events).type = "quit"
  /\ events' = Tail(events)
  /\ is_running' = FALSE
  /\ UNCHANGED <<cfgvars, viewvars, histvars, pc, idx, lockOK, thread_args,
                 th, wl, pixels, frame, nadv, shown, nposted, allocated, ptr,
                 kvars>>

\* SDL_PollEvent returned an SDL_MOUSEBUTTONDOWN of the left button: the
\* clicked pixel becomes the centre.
PollLeftClick ==
  /\ pc = "poll"
  /\ events # <<>>
  /\ Head(events).type = "down"
  /\ Head(events).button = "left"
  /\ events' = Tail(events)
  /\ center_r' = MouseR(Head(events).x, center_r, zoom, W, H)
  /\ center_i' = MouseI(Head(events).y, center_i, zoom, W, H)
  /\ UNCHANGED <<cfgvars, zoom, histvars, pc, is_running, idx, lockOK,
                 thread_args, th, wl, pixels, frame, nadv, shown, nposted,
                 allocated, ptr, kvars>>

\* SDL_PollEvent returned any other event.
PollIgnored ==
  /\ pc = "poll"
  /\ events # <<>>
  /\ Head(events).type = "down"
  /\ Head(events).button # "left"
  /\ events' = Tail(events)
  /\ UNCHANGED <<cfgvars, viewvars, histvars, pc, is_running, idx, lockOK,
                 thread_args, th, wl, pixels, frame, nadv, shown, nposted,
                 allocated, ptr, kvars>>

\* SDL_PollEvent returned 0: the queue is empty.
PollEmpty ==
  /\ pc = "poll"
  /\ events = <<>>
  /\ pc' = "advance"
  /\ UNCHANGED <<cfgvars, viewvars, histvars, is_running, idx, events, lockOK,
                 thread_args, th, wl, pixels, frame, nadv, shown, nposted,
                 allocated, ptr, kvars>>

\* zoom *= zoom_speed
Advance ==
  /\ pc = "advance"
  /\ zoom' = AdvanceZoom(zoom)
  /\ nadv' = nadv + 1
  /\ pc' = "lock"
  /\ UNCHANGED <<cfgvars, center_r, center_i, histvars, is_running, idx,
                 events, lockOK, thread_args, th, wl, pixels, frame, shown,
                 nposted, allocated, ptr, kvars>>

\* ------------------------------------------------------------------------
\* main(): drawing a frame
\* ------------------------------------------------------------------------

\* SDL_LockTexture.  Its return value is not looked at.  When it succeeds,
\* pixels points at the buffer for the texture's words, whose old content
\* is not kept.  When it fails, pixels and pitch are not set: they are
\* uninitialized, or still hold the buffer of the last successful lock.
LockTexture ==
  /\ pc = "lock"
  /\ \/ /\ lockOK' = TRUE
        /\ ptr' = "buffer"
        /\ pixels' = [c \in DOMAIN pixels |-> Stale]
     \/ /\ lockOK' = FALSE
        /\ UNCHANGED <<ptr, pixels>>
  /\ idx' = 0
  /\ pc' = "create"
  /\ UNCHANGED <<cfgvars, viewvars, histvars, is_running, events, thread_args,
                 th, wl, frame, nadv, shown, nposted, allocated, kvars>>

\* An argument block filled in with a zoom the block's worker advances
\* again: every worker after the first sees a later viewport.
ThreadArgsOf_Readvanced(i) ==
  [thread_id |-> i, num_threads |-> num_threads,
   pixels |-> ptr, pitch |-> ptr,
   center_r |-> center_r, center_i |-> center_i,
   zoom |-> IF i = 0 THEN zoom ELSE AdvanceZoom(zoom)]

\* thread_args[i] = (ThreadArgs){ ... }: the worker's number, the number of
\* workers, the values of main's pixels and pitch, and the viewport.
ThreadArgsOf(i) ==
  [thread_id |-> i, num_threads |-> num_threads,
   pixels |-> ptr, pitch |-> ptr,
   center_r |-> center_r, center_i |-> center_i, zoom |-> zoom]

\* The end of the launch loop: for (i = 0; i < num_threads; i++)
CreateLoopDone(i) == i >= num_threads

\* A join loop that stops one worker short: i < num_threads - 1
JoinLoopDone_OneShort(i) == i >= num_threads - 1

\* The end of the join loop: for (i = 0; i < num_threads; i++)
JoinLoopDone(i) == i >= num_threads

\* One pass of the launch loop: the argument block is filled in and
\* pthread_create is called; its return value is not looked at.  When it
\* fails no thread is started and threads[i] is left as it was.
CreateThread ==
  /\ pc = "create"
  /\ ~CreateLoopDone(idx)
  /\ allocated
  /\ thread_args' = [thread_args EXCEPT ![idx] = ThreadArgsOf(idx)]
  /\ \/ /\ th' = [th EXCEPT ![idx] = "ready"]
        /\ created' = created \cup {idx}
     \/ UNCHANGED <<th, created>>
  /\ idx' = idx + 1
  /\ UNCHANGED <<cfgvars, viewvars, writes, checked, iterated, joined, pc,
                 is_running, events, lockOK, wl, pixels, frame, nadv, shown,
                 nposted, allocated, ptr, kvars>>

\* The first pass of the launch loop when malloc returned NULL: the store
\* to thread_args[0], or pthread_create's store to threads[0], faults
\* before any thread is started.
CreateUnallocated ==
  /\ pc = "create"
  /\ ~CreateLoopDone(idx)
  /\ ~allocated
  /\ Crash

\* The launch loop ends and the join loop begins.
CreateDone ==
  /\ pc = "create"
  /\ CreateLoopDone(idx)
  /\ idx' = 0
  /\ pc' = "join"
  /\ UNCHANGED <<cfgvars, viewvars, histvars, is_running, events, lockOK,
                 thread_args, th, wl, pixels, frame, nadv, shown, nposted,
                 allocated, ptr, kvars>>

\* One pass of the join loop: pthread_join returns once worker i has ended.
JoinThread ==
  /\ pc = "join"
  /\ ~JoinLoopDone(idx)
  /\ th[idx] = "exited"
  /\ th' = [th EXCEPT ![idx] = "dead"]
  /\ wl' = [wl EXCEPT ![idx] = IdleLocals]
  /\ joined' = joined \cup {idx}
  /\ idx' = idx + 1
  /\ UNCHANGED <<cfgvars, viewvars, writes, checked, iterated, created, pc,
                 is_running, events, lockOK, thread_args, pixels, frame, nadv,
                 shown, nposted, allocated, ptr, kvars>>

\* pthread_join on threads[i] after pthread_create failed for i: the handle
\* is uninitialized, or that of a thread joined in an earlier frame.  The
\* call either returns an error, which is not looked at, or the process dies.
JoinUnstarted ==
  /\ pc = "join"
  /\ ~JoinLoopDone(idx)
  /\ th[idx] = "dead"
  /\ \/ /\ idx' = idx + 1
        /\ UNCHANGED <<cfgvars, viewvars, histvars, pc, is_running, events,
                       lockOK, thread_args, th, wl, pixels, frame, nadv,
                       shown, nposted, allocated, ptr, kvars>>
     \/ Crash

\* The join loop ends.
JoinDone ==
  /\ pc = "join"
  /\ JoinLoopDone(idx)
  /\ pc' = "unlock"
  /\ UNCHANGED <<cfgvars, viewvars, histvars, is_running, idx, events, lockOK,
                 thread_args, th, wl, pixels, frame, nadv, shown, nposted,
                 allocated, ptr, kvars>>

\* SDL_UnlockTexture, SDL_RenderCopy, SDL_RenderPresent: the buffer's words
\* become the texture's and the frame is shown; what the buffer holds
\* afterwards is not defined.
Present ==
  /\ pc = "unlock"
  /\ shown' =
       [frame |-> frame, locked |-> lockOK,
        busy |-> {t \in Workers : th[t] \in {"ready", "run"}},
        created |-> created, joined |-> joined, image |-> pixels]
  /\ lockOK' = FALSE
  /\ pixels' = [c \in DOMAIN pixels |-> Stale]
  /\ pc' = "loop"
  /\ UNCHANGED <<cfgvars, viewvars, histvars, is_running, idx, events,
                 thread_args, th, wl, frame, nadv, nposted, allocated, ptr,
                 kvars>>

\* ------------------------------------------------------------------------
\* render_thread
\* ------------------------------------------------------------------------

\* The worker's row range, from its argument block.
ArgStartY(a) == StartY(H, a.num_threads, a.thread_id)

ArgEndY(a) == EndY(H, a.num_threads, a.thread_id)

\* The x loop's step: x += 2 on the SSE2 path, x++ on the C path.
XStep == IF simd THEN 2 ELSE 1

\* A second lane stored without the test of x + 1.
Lane1Stored_Always(x) == TRUE

\* if (x + 1 < SCREEN_WIDTH): whether the batch's second lane is stored.
Lane1Stored(x) == x + 1 < W

\* Both calls made whatever the first returns, as with & in place of &&.
SecondChecked_Always(p0) == TRUE

\* periodicity_check(cr_base0, ci_base) && periodicity_check(cr_base1, ci_base):
\* the second call is made only when the first returned 1.
SecondChecked(p0) == p0

\* The stores of one batch, as a function from <<y, x>> to the word stored.
BatchStores(y, x, v0, v1) ==
  IF Lane1Stored(x) THEN (<<y, x>> :> v0) @@ (<<y, x + 1>> :> v1)
  ELSE (<<y, x>> :> v0)

\* The write history after worker t's stores st.
Logged(wr, t, st) ==
  [c \in DOMAIN wr \cup DOMAIN st |->
     IF c \in DOMAIN st
       THEN [n |-> (IF c \in DOMAIN wr THEN wr[c].n ELSE 0) + 1,
             by |-> (IF c \in DOMAIN wr THEN wr[c].by ELSE {}) \cup {t}]
       ELSE wr[c]]

\* The buffer after the stores st through the pointer the worker was given.
\* A pointer that holds the texture's buffer reaches it, also when it is
\* the stale pointer of an earlier frame and the texture is not locked; an
\* uninitialized pointer does not.
Stored(px, a, st) ==
  IF a.pixels = "buffer"
    THEN [c \in DOMAIN px |-> IF c \in DOMAIN st THEN st[c] ELSE px[c]]
    ELSE px

\* The worker's locals after the loop body, or "exited" past the last row.
AfterBatch(l, a) ==
  IF l.x + XStep < W THEN [l EXCEPT !.x = l.x + XStep, !.at = "check"]
  ELSE IF l.y + 1 < ArgEndY(a)
    THEN [l EXCEPT !.y = l.y + 1, !.x = 0, !.at = "check"]
  ELSE [l EXCEPT !.y = l.y + 1, !.x = 0, !.at = "exited"]

\* The thread begins: it reads its row range, computes x_scale and y_scale
\* from its argument block and enters the y loop.
WStart(t) ==
  /\ pc # "crashed"
  /\ th[t] = "ready"
  /\ LET a == thread_args[t] IN
       IF ArgStartY(a) < ArgEndY(a)
         THEN /\ th' = [th EXCEPT ![t] = "run"]
              /\ wl' = [wl EXCEPT ![t] =
                          [IdleLocals EXCEPT
                             !.y = ArgStartY(a),
                             !.x_scale = XScale(a.zoom, W, H),
                             !.y_scale = YScale(a.zoom, W)]]
         ELSE /\ th' = [th EXCEPT ![t] = "exited"]
              /\ UNCHANGED wl
  /\ UNCHANGED <<cfgvars, viewvars, histvars, pc, is_running, idx, events,
                 lockOK, thread_args, pixels, frame, nadv, shown, nposted,
                 allocated, ptr, kvars>>

\* The worker moves on after a store.
WMoveOn(t, l, a) ==
  LET n == AfterBatch(l, a) IN
    IF n.at = "exited"
      THEN /\ th' = [th EXCEPT ![t] = "exited"]
           /\ UNCHANGED wl
      ELSE /\ wl' = [wl EXCEPT ![t] = n]
           /\ UNCHANGED th

\* SSE2 path, the head of the x loop's body: ci_base is computed where a row
\* begins, the two points of the batch are computed and the periodicity
\* check is made; when both pixels pass they are stored black and the batch
\* is over.  l holds the locals with the points of the batch, p0 and p1
\* what periodicity_check returns for them; the second call is made only
\* when the first returned 1.
WCheckVec(t) ==
  /\ pc # "crashed"
  /\ simd
  /\ th[t] = "run"
  /\ wl[t].at = "check"
  /\ \E l \in {[wl[t] EXCEPT
                 !.ci = IF wl[t].x = 0
                          THEN PixelCi(wl[t].y, thread_args[t].center_i,
                                       wl[t].y_scale, H)
                          ELSE wl[t].ci,
                 !.cr0 = PixelCr(wl[t].x, thread_args[t].center_r,
                                 wl[t].x_scale, W),
                 !.cr1 = PixelCr(wl[t].x + 1, thread_args[t].center_r,
                                 wl[t].x_scale, W)]} :
     \E p0 \in {periodicity_check(l.cr0, l.ci)} :
     \E p1 \in {SecondChecked(p0) /\ periodicity_check(l.cr1, l.ci)} :
       LET a == thread_args[t]
           second == SecondChecked(p0)
           st == BatchStores(l.y, l.x, BLACK, BLACK)
       IN  /\ checked' =
                IF second
                  THEN (<<l.y, l.x>> :> p0) @@ (<<l.y, l.x + 1>> :> p1)
                         @@ checked
                  ELSE (<<l.y, l.x>> :> p0) @@ checked
           /\ IF p0 /\ second /\ p1
                THEN /\ writes' = Logged(writes, t, st)
                     /\ pixels' = Stored(pixels, a, st)
                     /\ WMoveOn(t, l, a)
                ELSE /\ wl' = [wl EXCEPT ![t] = [l EXCEPT !.at = "kernel"]]
                     /\ UNCHANGED <<writes, pixels, th>>
  /\ UNCHANGED <<cfgvars, viewvars, iterated, created, joined, pc, is_running,
                 idx, events, lockOK, thread_args, frame, nadv, shown,
                 nposted, allocated, ptr, kvars>>

\* SSE2 path, the rest of the body: the two-lane loop runs and the batch is
\* coloured from its counts.
WKernelVec(t) ==
  /\ pc # "crashed"
  /\ simd
  /\ th[t] = "run"
  /\ wl[t].at = "kernel"
  /\ \E n \in {VectorKernel(wl[t].cr0, wl[t].cr1, wl[t].ci)} :
       LET a == thread_args[t]
           l == wl[t]
           st == BatchStores(l.y, l.x, get_color(n[1]), get_color(n[2]))
       IN  /\ iterated' = iterated \cup {<<l.y, l.x>>, <<l.y, l.x + 1>>}
           /\ writes' = Logged(writes, t, st)
           /\ pixels' = Stored(pixels, a, st)
           /\ WMoveOn(t, l, a)
  /\ UNCHANGED <<cfgvars, viewvars, checked, created, joined, pc, is_running,
                 idx, events, lockOK, thread_args, frame, nadv, shown,
                 nposted, allocated, ptr, kvars>>

\* C path, the head of the x loop's body: the point is computed and checked;
\* a pixel that passes is stored black.
WCheckScalar(t) ==
  /\ pc # "crashed"
  /\ ~simd
  /\ th[t] = "run"
  /\ wl[t].at = "check"
  /\ \E l \in {[wl[t] EXCEPT
                 !.cr0 = PixelCr(wl[t].x, thread_args[t].center_r,
                                 wl[t].x_scale, W),
                 !.ci = PixelCi(wl[t].y, thread_args[t].center_i,
                                wl[t].y_scale, H)]} :
     \E p \in {periodicity_check(l.cr0, l.ci)} :
       LET a == thread_args[t]
           st == (<<l.y, l.x>> :> BLACK)
       IN  /\ checked' = (<<l.y, l.x>> :> p) @@ checked
           /\ IF p
                THEN /\ writes' = Logged(writes, t, st)
                     /\ pixels' = Stored(pixels, a, st)
                     /\ WMoveOn(t, l, a)
                ELSE /\ wl' = [wl EXCEPT ![t] = [l EXCEPT !.at = "kernel"]]
                     /\ UNCHANGED <<writes, pixels, th>>
  /\ UNCHANGED <<cfgvars, viewvars, iterated, created, joined, pc, is_running,
                 idx, events, lockOK, thread_args, frame, nadv, shown,
                 nposted, allocated, ptr, kvars>>

\* C path, the rest of the body: the escape-time loop runs and the pixel is
\* coloured from its count.
WKernelScalar(t) ==
  /\ pc # "crashed"
  /\ ~simd
  /\ th[t] = "run"
  /\ wl[t].at = "kernel"
  /\ \E n \in {ScalarKernel(wl[t].cr0, wl[t].ci)} :
       LET a == thread_args[t]
           l == wl[t]
           st == (<<l.y, l.x>> :> get_color(n))
       IN  /\ iterated' = iterated \cup {<<l.y, l.x>>}
           /\ writes' = Logged(writes, t, st)
           /\ pixels' = Stored(pixels, a, st)
           /\ WMoveOn(t, l, a)
  /\ UNCHANGED <<cfgvars, viewvars, checked, created, joined, pc, is_running,
                 idx, events, lockOK, thread_args, frame, nadv, shown,
                 nposted, allocated, ptr, kvars>>

\* A store through the pixels pointer while the texture is not locked, the
\* pointer being uninitialized or stale, faults: the process dies.
WWildStore(t) ==
  /\ pc # "crashed"
  /\ th[t] = "run"
  /\ ~lockOK
  /\ Crash

Next ==
  \/ StartupFails
  \/ StartupDone
  \/ PostEvent
  \/ LoopEnter
  \/ LoopExit
  \/ PollQuit
  \/ PollLeftClick
  \/ PollIgnored
  \/ PollEmpty
  \/ Advance
  \/ LockTexture
  \/ CreateThread
  \/ CreateUnallocated
  \/ CreateDone
  \/ JoinThread
  \/ JoinUnstarted
  \/ JoinDone
  \/ Present
  \/ \E t \in Workers : WStart(t)
  \/ \E t \in Workers : WCheckVec(t)
  \/ \E t \in Workers : WKernelVec(t)
  \/ \E t \in Workers : WCheckScalar(t)
  \/ \E t \in Workers : WKernelScalar(t)
  \/ \E t \in Workers : WWildStore(t)

Spec == Init /\ [][Next]_vars

\* ------------------------------------------------------------------------
\* The kernels on a grid of points and on batches of the first frame
\* ------------------------------------------------------------------------

\* The points k / 2 for k in -GridMax .. GridMax.
GridMax == 5

Grid == {DivByInt(IntToD(k), 2) : k \in -GridMax .. GridMax}

\* Columns and rows of the SCREEN_WIDTH x SCREEN_HEIGHT screen.
SampleX == {0, 300, 398, 400, 420, 500, 798}

SampleY == {0, 150, 250, 299, 300, 450}

\* The batches a worker of the first frame has at those columns and rows:
\* the viewport is the one the program starts with, zoom advanced once.
FirstFrameBatches ==
  LET z == AdvanceZoom(D_1_0)
      x_scale == XScale(z, SCREEN_WIDTH, SCREEN_HEIGHT)
      y_scale == YScale(z, SCREEN_WIDTH)
  IN  {<<PixelCr(x, D_CENTER_R, x_scale, SCREEN_WIDTH),
         PixelCr(x + 1, D_CENTER_R, x_scale, SCREEN_WIDTH),
         PixelCi(y, D_CENTER_I, y_scale, SCREEN_HEIGHT)>> :
         x \in SampleX, y \in SampleY}

\* The renderer does not run: its variables stay as at startup.
MainIdle ==
  /\ W = 1 /\ H = 1 /\ num_threads = 1 /\ simd = TRUE
  /\ pc = "exit" /\ allocated = FALSE /\ is_running = FALSE
  /\ zoom = D_1_0 /\ center_r = D_CENTER_R /\ center_i = D_CENTER_I
  /\ idx = 0 /\ events = <<>> /\ lockOK = FALSE /\ ptr = "unset"
  /\ thread_args = [t \in {0} |-> NoArgs]
  /\ th = [t \in {0} |-> "dead"]
  /\ created = {} /\ joined = {}
  /\ wl = [t \in {0} |-> IdleLocals]
  /\ pixels = [c \in {<<0, 0>>} |-> Stale]
  /\ writes = NoWrites /\ checked = NoChecks /\ iterated = {}
  /\ frame = 0 /\ nadv = 0 /\ shown = NoFrame /\ nposted = 0

KInit ==
  /\ MainIdle
  /\ kpc = "scalar0"
  /\ kin \in (Grid \X Grid \X Grid) \cup FirstFrameBatches
  /\ kscal = <<-1, -1>>
  /\ kvec = VecInit
  /\ kfrozen = <<-1, -1>>

KScalar0 ==
  /\ kpc = "scalar0"
  /\ kscal' = [kscal EXCEPT ![1] = ScalarKernel(kin[1], kin[3])]
  /\ kpc' = "scalar1"
  /\ UNCHANGED <<cfgvars, viewvars, histvars, mainvars, kin, kvec, kfrozen>>

KScalar1 ==
  /\ kpc = "scalar1"
  /\ kscal' = [kscal EXCEPT ![2] = ScalarKernel(kin[2], kin[3])]
  /\ kpc' = "vector"
  /\ UNCHANGED <<cfgvars, viewvars, histvars, mainvars, kin, kvec, kfrozen>>

\* Whether a lane's mask is false on entry to the next pass.
LaneEscapedNow(zr, zi) == ~LaneMask(MulD(zr, zr), MulD(zi, zi))

KVecStep ==
  /\ kpc = "vector"
  /\ ~kvec.done
  /\ kvec' = VecStep(kvec, kin[1], kin[2], kin[3])
  /\ kfrozen' =
       <<IF kfrozen[1] = -1 /\ LaneEscapedNow(kvec.zr0, kvec.zi0)
           THEN kvec.it0 ELSE kfrozen[1],
         IF kfrozen[2] = -1 /\ LaneEscapedNow(kvec.zr1, kvec.zi1)
           THEN kvec.it1 ELSE kfrozen[2]>>
  /\ UNCHANGED <<cfgvars, viewvars, histvars, mainvars, kpc, kin, kscal>>

KVecDone ==
  /\ kpc = "vector"
  /\ kvec.done
  /\ kpc' = "done"
  /\ UNCHANGED <<cfgvars, viewvars, histvars, mainvars, kin, kscal, kvec,
                 kfrozen>>

KNext == KScalar0 \/ KScalar1 \/ KVecStep \/ KVecDone

SpecKernel == KInit /\ [][KNext]_vars


\* ------------------------------------------------------------------------
\* The renderer on finer screens, with no input
\* ------------------------------------------------------------------------

\* Screens on which a row crosses the period-2 bulb and the cardioid at the
\* starting viewport: an even number of rows, 2 * FineHalf, puts a row through
\* the centre of the viewport; the widths are those up to FineWidth.
FineWidth == 2
FineHalf == 3

FineModes == (1 .. FineWidth) \X {2 * FineHalf}

InitFine ==
  /\ \E m \in FineModes : W = m[1] /\ H = m[2]
  /\ num_threads \in 1 .. MaxThreads
  /\ simd \in BOOLEAN
  /\ pc = "start"
  /\ allocated = FALSE
  /\ is_running = TRUE
  /\ zoom = D_1_0
  /\ center_r = D_CENTER_R
  /\ center_i = D_CENTER_I
  /\ idx = 0
  /\ events = <<>>
  /\ lockOK = FALSE
  /\ ptr = "unset"
  /\ thread_args = [t \in Workers |-> NoArgs]
  /\ th = [t \in Workers |-> "dead"]
  /\ created = {}
  /\ joined = {}
  /\ wl = [t \in Workers |-> IdleLocals]
  /\ pixels = [c \in (0 .. H - 1) \X (0 .. W - 1) |-> Stale]
  /\ writes = NoWrites
  /\ checked = NoChecks
  /\ iterated = {}
  /\ frame = 0
  /\ nadv = 0
  /\ shown = NoFrame
  /\ nposted = 0
  /\ kpc = "idle"
  /\ kin = <<Zero(0), Zero(0), Zero(0)>>
  /\ kscal = <<-1, -1>>
  /\ kvec = VecInit
  /\ kfrozen = <<-1, -1>>

\* The user does nothing: no event is ever queued.
NextFine ==
  \/ StartupFails
  \/ StartupDone
  \/ LoopEnter
  \/ PollEmpty
  \/ Advance
  \/ LockTexture
  \/ CreateThread
  \/ CreateUnallocated
  \/ CreateDone
  \/ JoinThread
  \/ JoinUnstarted
  \/ JoinDone
  \/ Present
  \/ \E t \in Workers : WStart(t)
  \/ \E t \in Workers : WCheckVec(t)
  \/ \E t \in Workers : WKernelVec(t)
  \/ \E t \in Workers : WCheckScalar(t)
  \/ \E t \in Workers : WKernelScalar(t)
  \/ \E t \in Workers : WWildStore(t)

SpecFine == InitFine /\ [][NextFine]_vars

\* ------------------------------------------------------------------------
\* The event loop on the 800 x 600 screen
\* ------------------------------------------------------------------------

\* The program on the screen it assumes when the display mode cannot be
\* read, followed up to the end of the event loop and the advance of zoom of
\* its first pass.  The frame is not drawn: the buffer, which is never
\* locked here, is left out.
InitRecenter ==
  /\ W = SCREEN_WIDTH
  /\ H = SCREEN_HEIGHT
  /\ num_threads \in 1 .. MaxThreads
  /\ simd \in BOOLEAN
  /\ pc = "start"
  /\ allocated = FALSE
  /\ is_running = TRUE
  /\ zoom = D_1_0
  /\ center_r = D_CENTER_R
  /\ center_i = D_CENTER_I
  /\ idx = 0
  /\ events = <<>>
  /\ lockOK = FALSE
  /\ ptr = "unset"
  /\ thread_args = [t \in Workers |-> NoArgs]
  /\ th = [t \in Workers |-> "dead"]
  /\ created = {}
  /\ joined = {}
  /\ wl = [t \in Workers |-> IdleLocals]
  /\ pixels = NoImage
  /\ writes = NoWrites
  /\ checked = NoChecks
  /\ iterated = {}
  /\ frame = 0
  /\ nadv = 0
  /\ shown = NoFrame
  /\ nposted = 0
  /\ kpc = "idle"
  /\ kin = <<Zero(0), Zero(0), Zero(0)>>
  /\ kscal = <<-1, -1>>
  /\ kvec = VecInit
  /\ kfrozen = <<-1, -1>>

NextRecenter ==
  \/ StartupFails
  \/ StartupDone
  \/ LoopEnter
  \/ PostEvent
  \/ PollQuit
  \/ PollLeftClick
  \/ PollIgnored
  \/ PollEmpty
  \/ Advance

SpecRecenter == InitRecenter /\ [][NextRecenter]_vars

\* ------------------------------------------------------------------------
\* Properties of the render loop
\* ------------------------------------------------------------------------

\* The rows worker i is given on a screen of h rows shared by n workers.
RowRange(h, n, i) == StartY(h, n, i) .. EndY(h, n, i) - 1

\* C1: a frame is unlocked and presented only after every worker that was
\* started for it has ended and has been joined: when main stands before
\* the unlock no worker is waiting to run, running, or ended but not joined,
\* and no frame was presented while one of its workers was.
C1_PresentAfterJoin ==
  /\ pc = "unlock" =>
       /\ \A t \in Workers : th[t] = "dead"
       /\ created \subseteq joined
  /\ shown.frame > 0 =>
       /\ shown.busy = {}
       /\ shown.created \subseteq shown.joined

\* C1: a frame was presented for which two workers were started, which both
\* stored pixels.
C1_Witness ==
  /\ shown.frame > 0
  /\ shown.locked
  /\ shown.created = {0, 1}
  /\ \E c \in DOMAIN writes : writes[c].by = {0}
  /\ \E c \in DOMAIN writes : writes[c].by = {1}

\* C2: the row ranges of the workers cover the screen, and in a presented
\* frame whose buffer was locked and whose workers were all started every
\* row has been rendered.
C2_EveryRowRendered ==
  (shown.frame > 0 /\ shown.locked /\ shown.created = Workers) =>
    /\ UNION {RowRange(H, num_threads, i) : i \in Workers} = 0 .. H - 1
    /\ \A y \in 0 .. H - 1 : \A x \in 0 .. W - 1 :
         /\ <<y, x>> \in DOMAIN writes
         /\ shown.image[<<y, x>>] # Stale

\* C3: every store of worker t goes to a row of t's range, the ranges of
\* two workers share no row, and no pixel is stored to by two workers.
C3_DisjointWrites ==
  /\ \A c \in DOMAIN writes : \A t \in writes[c].by :
       c[1] \in RowRange(H, num_threads, t)
  /\ \A i \in Workers : \A j \in Workers :
       i # j => RowRange(H, num_threads, i) \cap RowRange(H, num_threads, j) = {}
  /\ \A c \in DOMAIN writes : Cardinality(writes[c].by) <= 1

\* C3: two workers run at the same time and each has stored a pixel.
C3_Witness ==
  /\ num_threads = 2
  /\ th[0] = "run"
  /\ th[1] = "run"
  /\ \E c \in DOMAIN writes : writes[c].by = {0}
  /\ \E c \in DOMAIN writes : writes[c].by = {1}

\* C5: a frame is presented only when its buffer was locked and all its
\* workers were started and ended.
C5_NoFrameAfterFailure ==
  shown.frame > 0 =>
    /\ shown.locked
    /\ shown.created = Workers
    /\ shown.joined = Workers

\* C6: zoom is advanced once in every pass of the loop, before the first
\* worker is started; while workers are started and joined, the argument
\* block of every worker started in this pass holds the live viewport, which
\* therefore has not changed since the first of them was started.
C6_OneSnapshot ==
  /\ pc \in {"poll", "advance"} => nadv = frame - 1 /\ created = {}
  /\ pc \in {"lock", "create", "join", "unlock"} => nadv = frame
  /\ pc \in {"create", "join", "unlock"} =>
       \A t \in created :
         /\ thread_args[t].zoom = zoom
         /\ thread_args[t].center_r = center_r
         /\ thread_args[t].center_i = center_i

\* C6: in the second frame, after two clicks of which one moved the centre,
\* both workers have been started and are being joined.
C6_Witness ==
  /\ frame = 2
  /\ nadv = 2
  /\ nposted = 2
  /\ center_r # D_CENTER_R
  /\ pc = "join"
  /\ created = {0, 1}
  /\ zoom = AdvanceZoom(AdvanceZoom(D_1_0))

\* ------------------------------------------------------------------------
\* Properties of the kernels
\* ------------------------------------------------------------------------

\* cr^2 + ci^2 > 4, in doubles; none of the points the kernels are given
\* here is within rounding of the circle.
OutsideRadius2(cr, ci) == LtD(D_4_0, AddD(MulD(cr, cr), MulD(ci, ci)))

\* C4: when the two-lane loop has ended, each lane's count is the count the
\* scalar loop gives for that lane's point, whether the loop is taken step
\* by step or as the worker calls it; and once a lane's mask has gone false
\* its count stays what it was then, while the other lane goes on.
C4_LanesMatchScalar ==
  /\ kpc = "done" =>
       /\ kvec.it0 = kscal[1]
       /\ kvec.it1 = kscal[2]
       /\ VectorKernel(kin[1], kin[2], kin[3]) = kscal
  /\ kfrozen[1] # -1 => kvec.it0 = kfrozen[1]
  /\ kfrozen[2] # -1 => kvec.it1 = kfrozen[2]

\* C4: the loop has ended on a batch whose first lane escaped after some
\* passes and whose second lane went on for more passes after that.
C4_Witness ==
  /\ kpc = "done"
  /\ kfrozen[1] > 1
  /\ kvec.it0 = kfrozen[1]
  /\ kvec.it1 > kvec.it0 + 1
  /\ kvec.i > kvec.it0 + 1

\* C8: for a point outside the circle of radius 2 the scalar loop returns a
\* count below MAX_ITERATIONS.
C8_OutsideEscapes ==
  /\ (kpc \in {"scalar1", "vector", "done"} /\ OutsideRadius2(kin[1], kin[3]))
       => kscal[1] >= 0 /\ kscal[1] < MAX_ITERATIONS
  /\ (kpc \in {"vector", "done"} /\ OutsideRadius2(kin[2], kin[3]))
       => kscal[2] >= 0 /\ kscal[2] < MAX_ITERATIONS

\* C8: the scalar loop has run on a point outside the circle, which it left
\* at once, and on a point of the set, where it ran to MAX_ITERATIONS.
C8_Witness ==
  /\ kpc = "done"
  /\ OutsideRadius2(kin[1], kin[3])
  /\ kscal[1] = 1
  /\ ~OutsideRadius2(kin[2], kin[3])
  /\ kscal[2] = MAX_ITERATIONS

\* ------------------------------------------------------------------------
\* Properties of the recentring
\* ------------------------------------------------------------------------

\* 1.5
D_1_5 == [s |-> 0, e |-> -52, hi |-> 25165824, lo |-> 0]
\* 1.9975
D_1_9975 == [s |-> 0, e |-> -52, hi |-> 33512488, lo |-> 257698038]
\* 2^-48
D_TOLERANCE == [s |-> 0, e |-> -100, hi |-> 16777216, lo |-> 0]

\* Equal up to a few roundings of the doubles involved: |a - b| < 2^-48.
Near(a, b) ==
  LET d == SubD(a, b)
  IN  LtD([d EXCEPT !.s = 0], D_TOLERANCE)

\* The event loop takes a left click on pixel (0, 0) of the 800 x 600
\* screen while zoom is 1.0 and the centre is the one the program starts with.
RecenterAtOrigin ==
  /\ W = 800 /\ H = 600
  /\ pc = "poll"
  /\ zoom = D_1_0
  /\ center_r = D_CENTER_R
  /\ center_i = D_CENTER_I
  /\ events # <<>>
  /\ Head(events) = ButtonDown("left", 0, 0)
  /\ events' = Tail(events)

\* C7, as amended: that click moves the centre to
\* (center_r - 2 * aspect, center_i - 1.5), aspect being 800 / 600: the
\* values of center_r + (0 - 400) * (4 * aspect * 1.0 / 800) and
\* center_i + (0 - 300) * (4 * 1.0 / 800).
C7_RecenterByFormula ==
  [][RecenterAtOrigin =>
       /\ Near(center_r', SubD(center_r, MulD(D_2_0, AspectRatio(W, H))))
       /\ Near(center_i', SubD(center_i, D_1_5))
       /\ zoom' = zoom]_vars

\* C7: the centre after that click is the one the formula gives, with the
\* zoom still 1.0.
C7_Witness ==
  /\ W = 800 /\ H = 600
  /\ pc = "poll"
  /\ nadv = 0
  /\ zoom = D_1_0
  /\ Near(center_r, SubD(D_CENTER_R, MulD(D_2_0, AspectRatio(800, 600))))
  /\ Near(center_i, SubD(D_CENTER_I, D_1_5))

\* C7, as claimed: that click moves the centre to
\* (center_r - 1.9975 * aspect, center_i - 1.9975).
C7_RecenterAsClaimed ==
  [][RecenterAtOrigin =>
       /\ Near(center_r', SubD(center_r, MulD(D_1_9975, AspectRatio(W, H))))
       /\ Near(center_i', SubD(center_i, D_1_9975))]_vars

\* ------------------------------------------------------------------------
\* Properties of the workers' loops
\* ------------------------------------------------------------------------

\* The pixels of the screen.
OnScreen == (0 .. H - 1) \X (0 .. W - 1)

\* The first pixel of the batch of the SSE2 path that pixel c is in.
BatchHead(c) == <<c[1], c[2] - (c[2] % 2)>>

\* The second pixel of the batch whose first pixel is b.
BatchMate(b) == <<b[1], b[2] + 1>>

\* periodicity_check on pixel c's own point in the viewport of this frame.
FilterOf(c) ==
  periodicity_check(PixelCr(c[2], center_r, XScale(zoom, W, H), W),
                    PixelCi(c[1], center_i, YScale(zoom, W), H))

\* C9, as claimed: every pixel a kernel has iterated had the filter
\* evaluated on its own point before, on both paths, the second pixel of a
\* batch whose first pixel fails the filter included.
C9_FilterBeforeKernel ==
  \A c \in iterated \cap OnScreen :
    /\ c \in DOMAIN checked
    /\ checked[c] = FilterOf(c)

\* C9, as amended: on the C path every pixel a kernel has iterated had the
\* filter evaluated on its own point before, and failed it.  On the SSE2
\* path the filter was evaluated on the first pixel of every batch a kernel
\* has iterated, and on the second pixel of a batch exactly when the first
\* passed; a batch is iterated only when a pixel evaluated failed.
C9_FilterShortCircuit ==
  /\ \A c \in DOMAIN checked : checked[c] = FilterOf(c)
  /\ ~simd =>
       \A c \in iterated : c \in DOMAIN checked /\ ~checked[c]
  /\ simd =>
       /\ \A c \in iterated :
            /\ BatchHead(c) \in DOMAIN checked
            /\ \/ ~checked[BatchHead(c)]
               \/ ~checked[BatchMate(BatchHead(c))]
       /\ \A b \in DOMAIN checked :
            b = BatchHead(b) =>
              (BatchMate(b) \in DOMAIN checked <=> checked[b])

\* C9: on the SSE2 path a kernel has iterated the two pixels of a batch, both
\* on the screen, whose first pixel failed the filter and on whose second
\* pixel the filter was not evaluated.
C9_Witness ==
  /\ simd
  /\ \E c \in iterated \cap OnScreen :
       /\ c # BatchHead(c)
       /\ BatchHead(c) \in iterated
       /\ ~checked[BatchHead(c)]
       /\ c \notin DOMAIN checked

\* C10: on the SSE2 path every store goes to a column of the screen, no
\* pixel is stored to twice in a frame, and a worker that has ended has
\* stored to every column of every row of its range.
C10_ColumnsOnce ==
  simd =>
    /\ \A c \in DOMAIN writes : c[2] >= 0 /\ c[2] < W /\ writes[c].n = 1
    /\ \A t \in created :
         th[t] \in {"exited", "dead"} =>
           \A y \in RowRange(H, num_threads, t) : \A x \in 0 .. W - 1 :
             <<y, x>> \in DOMAIN writes

\* C10: on a screen of odd width a worker has ended after a last batch that
\* the shortcut painted black and a last batch coloured from the kernel's
\* counts; the second lane of neither was stored.
C10_Witness ==
  /\ simd
  /\ W % 2 = 1
  /\ th[0] = "exited"
  /\ \E y \in RowRange(H, num_threads, 0) :
       /\ checked[<<y, W - 1>>]
       /\ checked[<<y, W>>]
       /\ <<y, W - 1>> \notin iterated
       /\ pixels[<<y, W - 1>>] = BLACK
       /\ <<y, W>> \notin DOMAIN writes
  /\ \E y \in RowRange(H, num_threads, 0) :
       /\ <<y, W - 1>> \in iterated
       /\ <<y, W>> \in iterated
       /\ writes[<<y, W - 1>>].n = 1
       /\ pixels[<<y, W - 1>>] # BLACK
       /\ <<y, W>> \notin DOMAIN writes
====
